---------------------------- MODULE Spec2Model ----------------------------
(***************************************************************************)
(* A model of the Wesolowski VDF library: the byte/bigint utilities, the   *)
(* Montgomery reducer and modular exponentiation (utils.ts), the prime     *)
(* subsystem (prime.ts) and the VDF engine (vdf.ts).                       *)
(*                                                                         *)
(* bigint values are TLA+ integers.  TLC's integers are 32 bits wide, so   *)
(* the moduli, digests and challenges of the model are small numbers; a    *)
(* bigint product that is reduced at once, (a * b) % m, is MulMod, which   *)
(* gives the same value without an intermediate above 2^31.                *)
(*                                                                         *)
(* The two external services are inputs of the model.  SHA-512 is a table  *)
(* filled on demand (hashTable): the first query of a payload draws its    *)
(* digest, later queries of that payload get the same digest.  The random  *)
(* source yields, for every call of isPrime, the set of values its         *)
(* witnesses are computed from.                                            *)
(***************************************************************************)
EXTENDS Integers, Sequences, FiniteSets, TLC

(***************************************************************************)
(* Arithmetic of bigint.                                                   *)
(***************************************************************************)

Min(a, b) == IF a <= b THEN a ELSE b

\* The element of a one-element set.  A loop passes its next iteration the
\* values of its variables, {body(v) : v \in {value}}, as the code does.
The(S) == CHOOSE v \in S : TRUE

\* The least element of a nonempty set of integers.
Least(S) == CHOOSE j \in S : \A j2 \in S : j <= j2

RECURSIVE Pow2(_)
\* 1n << BigInt(k)
Pow2(k) == IF k <= 0 THEN 1 ELSE 2 * Pow2(k - 1)

\* A factor whose square still fits TLC's integers.
SafeFactor == Pow2(15)

RECURSIVE MulModSlow(_, _, _)
\* (a * b) % m for a < m <= 2^24, seven bits of b at a time: no
\* intermediate exceeds 2^31.
MulModSlow(a, b, m) ==
    IF b = 0 THEN 0
    ELSE (((MulModSlow(a, b \div 128, m) * 128) % m) + ((a * (b % 128)) % m)) % m

\* (a * b) % m for a, b >= 0 and m > 0.
MulMod(a, b, m) ==
    IF a <= SafeFactor /\ b <= SafeFactor
    THEN (a * b) % m
    ELSE MulModSlow(a % m, b % m, m)

RECURSIVE gcd(_, _)
\* while (b !== 0n) [a, b] = [b, a % b]; return a
gcd(a, b) == IF b = 0 THEN a ELSE gcd(b, a % b)

(***************************************************************************)
(* Byte encodings.  A byte string is a sequence of 0..255; a hex string is *)
(* a sequence of nibbles 0..15, with MinusSign for the "-" that toString   *)
(* puts before a negative bigint.                                          *)
(***************************************************************************)

MinusSign == 0 - 1

RECURSIVE NatToRadix(_, _)
\* The digits of x >= 0 in the given radix, most significant first.
NatToRadix(x, radix) ==
    IF x < radix THEN <<x>>
    ELSE Append(NatToRadix(x \div radix, radix), x % radix)

\* x.toString(radix)
toStringRadix(x, radix) ==
    IF x < 0 THEN <<MinusSign>> \o NatToRadix(0 - x, radix)
    ELSE NatToRadix(x, radix)

RECURSIVE BufferFromHex(_)
\* Buffer.from(hex, "hex"): one byte per pair of hex digits, cut at the
\* first pair that is not two hex digits.
BufferFromHex(hex) ==
    IF Len(hex) < 2 THEN <<>>
    ELSE IF hex[1] = MinusSign \/ hex[2] = MinusSign THEN <<>>
    ELSE <<16 * hex[1] + hex[2]>> \o BufferFromHex(SubSeq(hex, 3, Len(hex)))

bigintToBytes(x) ==
    IF x = 0 THEN <<0>>
    ELSE LET hex == toStringRadix(x, 16)
             padded == IF Len(hex) % 2 = 1 THEN <<0>> \o hex ELSE hex
         IN  BufferFromHex(padded)

\* Math.ceil(x.toString(16).length / 2)
bigintByteLength(x) ==
    IF x = 0 THEN 1 ELSE (Len(toStringRadix(x, 16)) + 1) \div 2

RECURSIVE BitLen(_)
\* 32 - Math.clz32(v) for v >= 0: the number of bits of v.
BitLen(v) == IF v <= 0 THEN 0 ELSE 1 + BitLen(v \div 2)

bigintBitLength(x) ==
    IF x = 0 THEN 0
    ELSE LET bytes == bigintByteLength(x)
             msb == (x \div Pow2((bytes - 1) * 8)) % 256
         IN  (bytes - 1) * 8 + BitLen(msb)

\* A call that can throw yields a record whose err is "none" or the kind
\* of the error thrown.
RangeError == "RangeError"
PlainError == "Error"
NoError == "none"
Throw(kind) == [err |-> kind]

Zeros(k) == [i \in 1..k |-> 0]

\* bigintToFixedBytes without the padding on the left.
bigintToFixedBytesUnpadded(x, len) ==
    LET bytes == bigintToBytes(x)
    IN  IF Len(bytes) > len THEN Throw(RangeError)
        ELSE [err |-> NoError, bytes |-> bytes]

bigintToFixedBytes(x, len) ==
    LET bytes == bigintToBytes(x)
    IN  IF Len(bytes) > len THEN Throw(RangeError)
        ELSE IF Len(bytes) = len THEN [err |-> NoError, bytes |-> bytes]
        ELSE [err |-> NoError, bytes |-> Zeros(len - Len(bytes)) \o bytes]

RECURSIVE bytesValue(_)
\* BigInt("0x" + hex) for the hex digits of bytes.
bytesValue(bytes) ==
    IF Len(bytes) = 0 THEN 0
    ELSE 256 * bytesValue(SubSeq(bytes, 1, Len(bytes) - 1)) + bytes[Len(bytes)]

\* The value is that of the bytes from the first nonzero one on.
bytesToBigint(bytes) ==
    The({The({IF nonzero = {} THEN 0
              ELSE bytesValue(SubSeq(b, Least(nonzero), Len(b))) :
                  nonzero \in {{i \in 1..Len(b) : b[i] # 0}}}) :
            b \in {bytes}})

\* The width of the u64be encoding.
U64Bytes == 8

RECURSIVE U64Loop(_, _)
\* for (i = 7; i >= 0; i--) { b[i] = x & 0xff; x >>= 8 }
U64Loop(x, k) ==
    IF k = 0 THEN <<>> ELSE Append(U64Loop(x \div 256, k - 1), x % 256)

\* u64be: x > 0xffff_ffff_ffff_ffff exactly when x needs more than 8 bytes.
u64be(x) ==
    IF x < 0 \/ bigintByteLength(x) > U64Bytes THEN Throw(RangeError)
    ELSE [err |-> NoError, bytes |-> U64Loop(x, U64Bytes)]


(***************************************************************************)
(* MontgomeryReducer (utils.ts).  A reducer is the record of its fields.   *)
(***************************************************************************)

RECURSIVE computeNPrimeLoop(_, _, _, _)
\* for (i = 0; i < rBits; i++) nInv = (nInv * (2n - n * nInv)) & rMask
computeNPrimeLoop(n, r, nInv, i) ==
    IF i = 0 THEN nInv
    ELSE computeNPrimeLoop(n, r, (nInv * (2 - n * nInv)) % r, i - 1)

\* computeNPrime returning nInv itself in place of r - nInv.
computeNPrimeNotNegated(n, rBits, r) == computeNPrimeLoop(n, r, 1, rBits) % r

computeNPrime(n, rBits, r) == (r - computeNPrimeLoop(n, r, 1, rBits)) % r

\* new MontgomeryReducer(n)
MontgomeryReducer(n) ==
    LET len == Len(toStringRadix(n, 2))
        rBits == IF Pow2(len) <= n THEN len + 1 ELSE len
        r == Pow2(rBits)
    IN  [n |-> n, rBits |-> rBits, r |-> r, rMask |-> r - 1,
         nPrime |-> computeNPrime(n, rBits, r)]

toMontgomery(mont, x) == (x * mont.r) % mont.n

\* reduce without the final subtraction of n.
reduceNoSubtract(mont, x) ==
    LET m == ((x % mont.r) * mont.nPrime) % mont.r
    IN  (x + m * mont.n) \div mont.r

reduce(mont, x) ==
    LET m == ((x % mont.r) * mont.nPrime) % mont.r
        t == (x + m * mont.n) \div mont.r
    IN  IF t >= mont.n THEN t - mont.n ELSE t

fromMontgomery(mont, x) == reduce(mont, x)

montMultiply(mont, a, b) == reduce(mont, a * b)

montSquare(mont, a) == reduce(mont, a * a)

(***************************************************************************)
(* Modular exponentiation (utils.ts).                                      *)
(***************************************************************************)

MODPOW_WINDOW_THRESHOLD_BITS == 64
MODPOW_MONTGOMERY_THRESHOLD_N_BITS == 1024
MODPOW_MONTGOMERY_THRESHOLD_EXP_BITS == 128
MODPOW_MONTGOMERY_CACHE_LIMIT == 10

shouldUseMontgomeryForModpow(n, expBits) ==
    IF n % 2 = 0 THEN FALSE
    ELSE IF expBits < MODPOW_MONTGOMERY_THRESHOLD_EXP_BITS THEN FALSE
    ELSE bigintByteLength(n) * 8 >= MODPOW_MONTGOMERY_THRESHOLD_N_BITS

selectWindowSize(expBits) ==
    IF expBits <= 32 THEN 1
    ELSE IF expBits <= 96 THEN 3
    ELSE IF expBits <= 384 THEN 4
    ELSE IF expBits <= 1024 THEN 5
    ELSE 6

\* One turn of the while loop of modpowClassic on its variables; a turn
\* with y = 0 is not taken.
\* if (y & 1n) res = res * x % mod; y >>= 1n; if (y > 0n) x = x * x % mod
modpowClassicTurn(st, mod) ==
    The({IF v.y <= 0 THEN v
         ELSE [res |-> IF v.y % 2 = 1 THEN MulMod(v.res, v.x, mod) ELSE v.res,
               x |-> IF v.y \div 2 > 0 THEN MulMod(v.x, v.x, mod) ELSE v.x,
               y |-> v.y \div 2] :
             v \in {st}})

RECURSIVE modpowClassicLoop(_, _, _, _)
\* while (y > 0n) { ... }: four turns of the loop to a level of the
\* recursion.
modpowClassicLoop(res, x, y, mod) ==
    IF y <= 0 THEN res
    ELSE The({modpowClassicLoop(v.res, v.x, v.y, mod) :
                 v \in {modpowClassicTurn(modpowClassicTurn(
                            modpowClassicTurn(modpowClassicTurn(
                                [res |-> res, x |-> x, y |-> y],
                                mod), mod), mod), mod)}})

modpowClassic(base, exp, mod) == modpowClassicLoop(1, base, exp, mod)

\* The square and multiply closures handed to modpowWindowedCore: those of a
\* reducer (ops.mont) or the plain ones modulo ops.p.
PlainOps(p) == [mont |-> FALSE, p |-> p]
MontOps(mont) == [mont |-> TRUE, red |-> mont]
opSquare(ops, a) ==
    IF ops.mont THEN montSquare(ops.red, a) ELSE MulMod(a, a, ops.p)
opMultiply(ops, a, b) ==
    IF ops.mont THEN montMultiply(ops.red, a, b) ELSE MulMod(a, b, ops.p)

\* One turn of the loop that fills the table, on st = [table, i]:
\* table[i] = multiply(table[i - 2], base2); i += 2
windowTableTurn(ops, st, base2, tableSize) ==
    The({IF v.i >= tableSize THEN v
         ELSE [table |-> (v.i :> opMultiply(ops, v.table[v.i - 2], base2))
                             @@ v.table,
               i |-> v.i + 2] : v \in {st}})

RECURSIVE windowTable(_, _, _, _, _)
\* table[1] = base; for (i = 3; i < tableSize; i += 2)
\*     table[i] = multiply(table[i - 2], base2)
\* The table is a function on the indices that were assigned; the loop is
\* run four turns at a time.
windowTable(ops, table, base2, i, tableSize) ==
    IF i >= tableSize THEN table
    ELSE The({The({windowTable(ops, v.table, b2, v.i, tableSize) :
                      v \in {windowTableTurn(ops,
                                 windowTableTurn(ops,
                                     windowTableTurn(ops,
                                         windowTableTurn(ops,
                                             [table |-> table, i |-> i],
                                             b2, tableSize),
                                         b2, tableSize),
                                     b2, tableSize),
                                 b2, tableSize)}}) :
                 b2 \in {base2}})

\* trimWindow without the loop: the window keeps its trailing zeros.
trimWindowNone(bits, j) == j

RECURSIVE trimWindow(_, _)
\* while (bits.charCodeAt(j - 1) === 48) j--
\* (charCodeAt outside the string is NaN, which ends the loop)
trimWindow(bits, j) ==
    IF j >= 1 /\ j <= Len(bits) /\ bits[j] = 0 THEN trimWindow(bits, j - 1)
    ELSE j

RECURSIVE windowValue(_, _, _, _)
\* for (k = i; k < j; k++) win = (win << 1) | bit
windowValue(bits, k, j, win) ==
    IF k >= j THEN win
    ELSE windowValue(bits, k + 1, j, 2 * win + (IF bits[k + 1] = 1 THEN 1 ELSE 0))

RECURSIVE squareTimesOneShort(_, _, _)
\* squareTimes with one squaring fewer.
squareTimesOneShort(ops, result, k) ==
    IF k <= 1 THEN result
    ELSE squareTimesOneShort(ops, opSquare(ops, result), k - 1)

RECURSIVE squareTimes(_, _, _)
\* for (k = i; k < j; k++) result = square(result)
squareTimes(ops, result, k) ==
    IF k <= 0 THEN result ELSE squareTimes(ops, opSquare(ops, result), k - 1)

RECURSIVE windowLoop(_, _, _, _, _, _)
\* The scan of modpowWindowedCore; i is the 0-based index into bits.
windowLoop(ops, bits, window, table, result, i) ==
    IF i >= Len(bits) THEN result
    ELSE IF bits[i + 1] = 0
    THEN windowLoop(ops, bits, window, table, opSquare(ops, result), i + 1)
    ELSE LET j == trimWindow(bits, Min(i + window, Len(bits)))
             win == windowValue(bits, i, j, 0)
             squared == squareTimes(ops, result, j - i)
         IN  windowLoop(ops, bits, window, table,
                        opMultiply(ops, squared, table[win]), j)

\* The table of modpowWindowedCore once filled.
windowTableOf(ops, base, window) ==
    LET tableSize == Pow2(window)
        table1 == (1 :> base)
    IN  IF tableSize > 2
        THEN windowTable(ops, table1, opSquare(ops, base), 3, tableSize)
        ELSE table1

modpowWindowedCore(ops, base, bits, window, one) ==
    windowLoop(ops, bits, window, windowTableOf(ops, base, window), one, 0)

\* The branch of modpow that hands modpowWindowedCore the plain closures.
modpowWindowedPlain(base, bits, window, p) ==
    modpowWindowedCore(PlainOps(p), base, bits, window, 1)

\* The branch of modpow that hands modpowWindowedCore a reducer's closures.
\* getMontgomeryReducerCached(p) is new MontgomeryReducer(p): a cached
\* reducer is the one built for p.
modpowWindowedMontgomery(base, bits, window, p) ==
    LET mont == MontgomeryReducer(p)
    IN  fromMontgomery(mont,
            modpowWindowedCore(MontOps(mont), toMontgomery(mont, base), bits,
                               window, toMontgomery(mont, 1)))

\* modpow(x, y, p) for x >= 0 and p >= 1.
modpow(x, y, p) ==
    IF p = 1 THEN 0
    ELSE IF y = 0 THEN 1 % p
    ELSE IF y = 1 THEN x % p
    ELSE IF y = 2 THEN LET v == x % p IN MulMod(v, v, p)
    ELSE LET base == x % p
             expBits == bigintBitLength(y)
         IN  IF expBits <= MODPOW_WINDOW_THRESHOLD_BITS
             THEN modpowClassic(base, y, p)
             ELSE LET window == selectWindowSize(expBits)
                      bits == toStringRadix(y, 2)
                  IN  IF shouldUseMontgomeryForModpow(p, expBits)
                      THEN modpowWindowedMontgomery(base, bits, window, p)
                      ELSE modpowWindowedPlain(base, bits, window, p)


(***************************************************************************)
(* Primes (prime.ts).                                                      *)
(***************************************************************************)

SMALL_PRIME_LIMIT == 1000

RECURSIVE sieveMarks(_, _)
\* for (i = 2; i <= limit; i++) if (sieve[i] === 0)
\*     for (j = i * i; j <= limit; j += i) sieve[j] = 1
\* The set of j with sieve[j] = 1; an i with i * i > limit marks nothing.
sieveMarks(i, marked) ==
    IF i * i > SMALL_PRIME_LIMIT THEN marked
    ELSE IF i \notin marked
    THEN sieveMarks(i + 1,
                    marked \cup {j \in (i * i)..SMALL_PRIME_LIMIT : j % i = 0})
    ELSE sieveMarks(i + 1, marked)

\* primes.push(BigInt(i)) for every i the loop finds unmarked, in order: a
\* mark on j is set by an i < j, so it is in place when the loop reaches j.
SMALL_PRIMES ==
    LET marked == sieveMarks(2, {})
    IN  SelectSeq([k \in 1..(SMALL_PRIME_LIMIT - 1) |-> k + 1],
                  LAMBDA i : i \notin marked)

WHEEL_MOD == 210

\* for (r = 1; r < mod; r += 2) if (r % 3, r % 5, r % 7 all nonzero) push r
\* The odd values from r on below mod, in order, that pass the test.
wheelResidues(r) ==
    SelectSeq([k \in 1..((WHEEL_MOD - r + 1) \div 2) |-> r + 2 * (k - 1)],
              LAMBDA v : v % 3 # 0 /\ v % 5 # 0 /\ v % 7 # 0)

WHEEL_RESIDUES == wheelResidues(1)

\* increments[i] = residues[(i + 1) % length] - residues[i], not reduced
\* modulo mod.
wheelIncrementsNotReduced ==
    [i \in 1..Len(WHEEL_RESIDUES) |->
        WHEEL_RESIDUES[(i % Len(WHEEL_RESIDUES)) + 1] - WHEEL_RESIDUES[i]]

\* increments[i] = (residues[(i + 1) % length] - residues[i] + mod) % mod
WHEEL_INCREMENTS ==
    [i \in 1..Len(WHEEL_RESIDUES) |->
        (WHEEL_RESIDUES[(i % Len(WHEEL_RESIDUES)) + 1] - WHEEL_RESIDUES[i]
            + WHEEL_MOD) % WHEEL_MOD]

\* The scan of alignToWheel from the 0-based index i of residues on: it
\* stops at the first residue r with m <= r.
alignLoop(p, m, i) ==
    The({IF hits = {}
         THEN [p |-> p + (WHEEL_MOD - m + WHEEL_RESIDUES[1]), idx |-> 0]
         ELSE [p |-> p + (WHEEL_RESIDUES[Least(hits) + 1] - m),
               idx |-> Least(hits)] :
             hits \in {{j \in i..(Len(WHEEL_RESIDUES) - 1) :
                           m <= WHEEL_RESIDUES[j + 1]}}})

alignLoopStrict(p, m, i) ==
    The({IF hits = {}
         THEN [p |-> p + (WHEEL_MOD - m + WHEEL_RESIDUES[1]), idx |-> 0]
         ELSE [p |-> p + (WHEEL_RESIDUES[Least(hits) + 1] - m),
               idx |-> Least(hits)] :
             hits \in {{j \in i..(Len(WHEEL_RESIDUES) - 1) :
                           m < WHEEL_RESIDUES[j + 1]}}})

\* alignToWheel with m < r in place of m <= r.
alignToWheelStrict(p) ==
    The({alignLoopStrict(v, v % WHEEL_MOD, 0) : v \in {p}})

\* alignToWheel(p) for p >= 0.
alignToWheel(p) == The({alignLoop(v, v % WHEEL_MOD, 0) : v \in {p}})

\* The witness 2 alone.
WitnessTwoOnly == <<2>>

DETERMINISTIC_WITNESSES == <<2, 3, 5, 7, 11, 13, 17, 19, 23, 29, 31, 37>>

RECURSIVE millerRabinLoop(_, _, _, _)
\* for (r = 1; r < s; r++) { x = x * x % n; if (x === n - 1) return true;
\*                           if (x === 1) return false }  return false
millerRabinLoop(n, s, x, r) ==
    IF r >= s THEN FALSE
    ELSE \E x1 \in {MulMod(x, x, n)} :
             IF x1 = n - 1 THEN TRUE
             ELSE IF x1 = 1 THEN FALSE
             ELSE millerRabinLoop(n, s, x1, r + 1)

millerRabinRound(n, d, s, a) ==
    \E x \in {modpow(a, d, n)} :
        IF x = 1 \/ x = n - 1 THEN TRUE ELSE millerRabinLoop(n, s, x, 1)

\* for (p of SMALL_PRIMES) { if (n === p) return true;
\*                           if (n % p === 0n) return false }
\* The loop returns at the first p with n === p or n % p === 0n: "prime",
\* "composite", or "pass" when it ends without returning.
trialDivision(n) ==
    LET stops == {i \in 1..Len(SMALL_PRIMES) :
                     n = SMALL_PRIMES[i] \/ n % SMALL_PRIMES[i] = 0}
    IN  IF stops = {} THEN "pass"
        ELSE LET first == CHOOSE i \in stops : \A j \in stops : i <= j
             IN  IF n = SMALL_PRIMES[first] THEN "prime" ELSE "composite"

RECURSIVE oddPart(_)
\* while ((d & 1n) === 0n) { d >>= 1n; s++ }
oddPart(ds) ==
    IF ds.d % 2 = 0
    THEN The({oddPart(next) : next \in {[d |-> ds.d \div 2, s |-> ds.s + 1]}})
    ELSE ds

\* The bound below which isPrime tests the fixed witnesses.  In prime.ts it
\* is 318,665,857,834,031,151,167,461, which no TLC integer holds; here it is
\* SMALL_PRIME_LIMIT^2, the bound below which trial division alone already
\* decides, so that the regime is exact in the model as it is in the code.
DETERMINISTIC_LIMIT == SMALL_PRIME_LIMIT * SMALL_PRIME_LIMIT

\* The witness taken as 2 + r, not reduced modulo n - 4.
randomWitnessUnreduced(n, r) == 2 + r

\* a = 2n + (r % nMinus4)
randomWitness(n, r) == 2 + (r % (n - 4))

\* for (a of DETERMINISTIC_WITNESSES) { if (a >= nMinus1) break;
\*     if (!millerRabinRound(n, d, s, a)) return false }  return true
\* From the index i on the loop tests the witnesses before the first one
\* that is n - 1 or more; it returns false when one of them fails.
deterministicLoop(n, d, s, i) ==
    LET tested == {j \in i..Len(DETERMINISTIC_WITNESSES) :
                      \A j2 \in i..j : DETERMINISTIC_WITNESSES[j2] < n - 1}
    IN  \A j \in tested : millerRabinRound(n, d, s, DETERMINISTIC_WITNESSES[j])

\* for (i = 0; i < k; i++) { r = the i-th chunk of rand;
\*     a = 2 + r % (n - 4); if (!millerRabinRound(n, d, s, a)) return false }
\* return true
\* rand[i + 1] is the value of the i-th nBytes-byte chunk of the buffer.
\* The loop returns false at the first round whose witness fails, true when
\* no witness of the k rounds fails.
randomLoop(n, d, s, rand, k) ==
    LET witnesses == {randomWitness(n, rand[i + 1]) : i \in 0..(k - 1)}
    IN  \A a \in witnesses : millerRabinRound(n, d, s, a)

\* The witnesses of the rounds the loop runs from round i on: round j is
\* run when no witness of an earlier round has failed.
randomWitnessesUsed(n, d, s, rand, k, i) ==
    The({{randomWitness(n, rand[j + 1]) :
             j \in {j2 \in i..(k - 1) : \A j3 \in i..(j2 - 1) : j3 \in passing}} :
            passing \in {{j \in i..(k - 1) :
                             millerRabinRound(n, d, s,
                                              randomWitness(n, rand[j + 1]))}}})

\* Whether isPrime(n) gets as far as crypto.getRandomValues.
drawsRandom(n) ==
    /\ n > 3
    /\ n % 2 = 1
    /\ trialDivision(n) = "pass"
    /\ n >= DETERMINISTIC_LIMIT

\* The buffer of a call that draws none.
NoRandom == <<>>

\* isPrime(n, {rounds: k}) when crypto.getRandomValues fills the buffer
\* with rand.
isPrime(n, k, rand) ==
    IF n < 2 THEN FALSE
    ELSE IF n = 2 \/ n = 3 THEN TRUE
    ELSE IF n % 2 = 0 THEN FALSE
    ELSE LET trial == trialDivision(n)
         IN  IF trial = "prime" THEN TRUE
             ELSE IF trial = "composite" THEN FALSE
             ELSE LET ds == oddPart([d |-> n - 1, s |-> 0])
                  IN  IF n < DETERMINISTIC_LIMIT
                      THEN deterministicLoop(n, ds.d, ds.s, 1)
                      ELSE randomLoop(n, ds.d, ds.s, rand, k)

\* isPrime(n) for n below 318,665,857,834,031,151,167,461, as every integer
\* that TLC holds is: after trial division the fixed witnesses decide.
isPrimeDeterministic(n) ==
    IF n < 2 THEN FALSE
    ELSE IF n = 2 \/ n = 3 THEN TRUE
    ELSE IF n % 2 = 0 THEN FALSE
    ELSE LET trial == trialDivision(n)
         IN  IF trial = "prime" THEN TRUE
             ELSE IF trial = "composite" THEN FALSE
             ELSE LET ds == oddPart([d |-> n - 1, s |-> 0])
                  IN  deterministicLoop(n, ds.d, ds.s, 1)

\* rounds ?? 32
DEFAULT_ROUNDS == 32

\* The values the random source is taken to put in a chunk.
RandomValues == {0, 988}

\* The buffers the random source fills for k rounds: the first chunk and
\* the value of all later chunks are drawn independently.
RandomBuffers(k) ==
    {[i \in 1..k |-> IF i = 1 THEN r1 ELSE r2] :
        r1 \in RandomValues, r2 \in RandomValues}

\* The buffers a call of isPrime(n, {rounds: k}) can draw.
isPrimeDraws(n, k) == IF drawsRandom(n) THEN RandomBuffers(k) ELSE {NoRandom}

\* The values isPrime(n, {rounds: k}) can return.
isPrimeOutcomes(n, k) == {isPrime(n, k, rand) : rand \in isPrimeDraws(n, k)}

RECURSIVE nextPrimeWalk(_, _, _)
\* while (true) { if (isPrime(p, options)) return p;
\*                 p += increments[idx]; idx = (idx + 1) % increments.length }
\* The values the walk can return: every isPrime call draws a fresh buffer.
nextPrimeWalk(p, idx, k) ==
    LET outcomes == isPrimeOutcomes(p, k)
    IN  (IF TRUE \in outcomes THEN {p} ELSE {})
        \cup
        (IF FALSE \in outcomes
         THEN nextPrimeWalk(p + WHEEL_INCREMENTS[idx + 1],
                            (idx + 1) % Len(WHEEL_INCREMENTS), k)
         ELSE {})

\* The values nextPrime(n, {rounds: k}) can return.
nextPrime(n, k) ==
    IF n <= 2 THEN {2}
    ELSE IF n = 3 THEN {3}
    ELSE IF n <= 5 THEN {5}
    ELSE IF n <= 7 THEN {7}
    ELSE LET aligned == alignToWheel(n)
         IN  nextPrimeWalk(aligned.p, aligned.idx, k)


\* Math.ceil(bits / 8), for bits >= 0.
getPrimeByteLength(bits) == (bits + 7) \div 8

\* (1n << BigInt(bits)) - 1n
getPrimeMax(bits) == Pow2(bits) - 1

\* b | 0x80 and b | 1 on a byte b.
setHighBit(b) == IF b >= 128 THEN b ELSE b + 128
setLowBit(b) == IF b % 2 = 1 THEN b ELSE b + 1

\* The candidate without the high bit forced.
getPrimeCandidateLowOnly(x) ==
    bytesToBigint([i \in 1..Len(x) |->
                      IF i = Len(x) THEN setLowBit(x[i]) ELSE x[i]])

\* x[0] |= 0x80; x[x.length - 1] |= 1; p = BigInt("0x" + hex(x)), for a
\* buffer x of one byte or more.
getPrimeCandidate(x) ==
    LET high == [x EXCEPT ![1] = setHighBit(x[1])]
        both == [high EXCEPT ![Len(x)] = setLowBit(high[Len(x)])]
    IN  bytesToBigint(both)

(***************************************************************************)
(* The VDF engine (vdf.ts).                                                *)
(***************************************************************************)

MONTGOMERY_THRESHOLD_T == 5000
MONTGOMERY_THRESHOLD_N_BITS == 1024

\* new TextEncoder().encode("wesolowski-v1")
CHALLENGE_TAG == <<119, 101, 115, 111, 108, 111, 119, 115, 107, 105, 45, 118, 49>>

NONCE_LENGTH == 32

shouldUseMontgomery(n, t) ==
    IF t < MONTGOMERY_THRESHOLD_T THEN FALSE
    ELSE IF n % 2 = 0 THEN FALSE
    ELSE bigintByteLength(n) * 8 >= MONTGOMERY_THRESHOLD_N_BITS

RECURSIVE squareLoop(_, _, _)
\* for (i = 0; i < t; i++) h = (h * h) % n
squareLoop(h, n, t) ==
    IF t <= 0 THEN h ELSE squareLoop(MulMod(h, h, n), n, t - 1)

RECURSIVE montSquareLoop(_, _, _)
\* for (i = 0; i < t; i++) h = mont.square(h)
montSquareLoop(mont, h, t) ==
    IF t <= 0 THEN h ELSE montSquareLoop(mont, montSquare(mont, h), t - 1)

\* The Montgomery branch of evaluate; getMontgomeryReducer(n) is
\* new MontgomeryReducer(n), cached or not.
evaluateMontgomery(x, n, t) ==
    LET mont == MontgomeryReducer(n)
    IN  fromMontgomery(mont, montSquareLoop(mont, toMontgomery(mont, x), t))

\* evaluatePlain with the loop run one time too few.
evaluatePlainOneShort(x, n, t) == squareLoop(x, n, t - 1)

evaluatePlain(x, n, t) == squareLoop(x, n, t)

\* evaluate with t validated before the coprimality of x.
evaluateTimeFirst(x, n, t) ==
    IF x <= 0 \/ x >= n THEN Throw(RangeError)
    ELSE IF t <= 0 THEN Throw(RangeError)
    ELSE IF gcd(x, n) # 1 THEN Throw(PlainError)
    ELSE [err |-> NoError, x |-> x, h |-> evaluatePlain(x, n, t),
          t |-> t, n |-> n]

\* evaluate(x, {n, t})
evaluate(x, n, t) ==
    IF x <= 0 \/ x >= n THEN Throw(RangeError)
    ELSE IF gcd(x, n) # 1 THEN Throw(PlainError)
    ELSE IF t <= 0 THEN Throw(RangeError)
    ELSE [err |-> NoError, x |-> x,
          h |-> IF shouldUseMontgomery(n, t) THEN evaluateMontgomery(x, n, t)
                ELSE evaluatePlain(x, n, t),
          t |-> t, n |-> n]

\* The payload deriveChallenge hashes, or the error thrown on the way.
challengePayload(x, h, t, n, nonce) ==
    IF Len(nonce) # NONCE_LENGTH THEN Throw(RangeError)
    ELSE LET nLen == bigintByteLength(n)
             X == bigintToFixedBytes(x, nLen)
             H == bigintToFixedBytes(h, nLen)
             T == u64be(t)
             N == bigintToFixedBytes(n, nLen)
         IN  IF X.err # NoError THEN Throw(X.err)
             ELSE IF H.err # NoError THEN Throw(H.err)
             ELSE IF T.err # NoError THEN Throw(T.err)
             ELSE IF N.err # NoError THEN Throw(N.err)
             ELSE [err |-> NoError,
                   bytes |-> CHALLENGE_TAG \o X.bytes \o H.bytes \o T.bytes
                                 \o N.bytes \o nonce]

\* proveStep with r2 > l in place of r2 >= l.
proveStepStrict(st, x, n, l) ==
    LET pi1 == MulMod(st.pi, st.pi, n)
        r2 == 2 * st.r
    IN  IF r2 > l THEN [pi |-> MulMod(pi1, x, n), r |-> r2 - l]
        ELSE [pi |-> pi1, r |-> r2]

\* The step of prove's loop on (pi, r).
proveStep(st, x, n, l) ==
    LET pi1 == MulMod(st.pi, st.pi, n)
        r2 == 2 * st.r
    IN  IF r2 >= l THEN [pi |-> MulMod(pi1, x, n), r |-> r2 - l]
        ELSE [pi |-> pi1, r |-> r2]

RECURSIVE proveLoop(_, _, _, _, _)
proveLoop(st, x, n, l, t) ==
    IF t <= 0 THEN st ELSE proveLoop(proveStep(st, x, n, l), x, n, l, t - 1)

provePlain(x, t, n, l) == proveLoop([pi |-> 1, r |-> 1], x, n, l, t).pi

\* The step of the Montgomery branch of prove; pi and xMont are in
\* Montgomery form.
proveStepMontgomery(mont, st, xMont, l) ==
    LET pi1 == montSquare(mont, st.pi)
        r2 == 2 * st.r
    IN  IF r2 >= l THEN [pi |-> montMultiply(mont, pi1, xMont), r |-> r2 - l]
        ELSE [pi |-> pi1, r |-> r2]

RECURSIVE proveLoopMontgomery(_, _, _, _, _)
proveLoopMontgomery(mont, st, xMont, l, t) ==
    IF t <= 0 THEN st
    ELSE proveLoopMontgomery(mont, proveStepMontgomery(mont, st, xMont, l),
                             xMont, l, t - 1)

proveMontgomery(x, t, n, l) ==
    LET mont == MontgomeryReducer(n)
        st == proveLoopMontgomery(mont, [pi |-> toMontgomery(mont, 1), r |-> 1],
                                  toMontgomery(mont, x), l, t)
    IN  fromMontgomery(mont, st.pi)

\* prove(output, l)
prove(x, t, n, l) ==
    IF shouldUseMontgomery(n, t) THEN proveMontgomery(x, t, n, l)
    ELSE provePlain(x, t, n, l)

\* Whether verify(proof) gets as far as isPrime(l).
verifyTestsChallenge(proof) ==
    /\ ~(proof.pi <= 0 \/ proof.pi >= proof.n)
    /\ ~(proof.x <= 0 \/ proof.x >= proof.n)
    /\ gcd(proof.x, proof.n) = 1
    /\ proof.l > 2

\* The buffers a call of verify(proof) can draw.
verifyDraws(proof) ==
    IF verifyTestsChallenge(proof) THEN isPrimeDraws(proof.l, DEFAULT_ROUNDS)
    ELSE {NoRandom}

\* verify without the primality test of l.
verifySkipsPrimality(proof, rand) ==
    IF proof.pi <= 0 \/ proof.pi >= proof.n THEN FALSE
    ELSE IF proof.x <= 0 \/ proof.x >= proof.n THEN FALSE
    ELSE IF gcd(proof.x, proof.n) # 1 THEN FALSE
    ELSE IF proof.l <= 2 THEN FALSE
    ELSE LET r == modpow(2, proof.t, proof.l)
             expected == MulMod(modpow(proof.pi, proof.l, proof.n),
                                modpow(proof.x, r, proof.n), proof.n)
         IN  expected = proof.h

\* verify without the factor x^r of the equation.
verifyOmitsResidue(proof, rand) ==
    IF proof.pi <= 0 \/ proof.pi >= proof.n THEN FALSE
    ELSE IF proof.x <= 0 \/ proof.x >= proof.n THEN FALSE
    ELSE IF gcd(proof.x, proof.n) # 1 THEN FALSE
    ELSE IF proof.l <= 2 \/ ~isPrime(proof.l, DEFAULT_ROUNDS, rand) THEN FALSE
    ELSE modpow(proof.pi, proof.l, proof.n) = proof.h

\* verify without the factor pi^l of the equation.
verifyOmitsProof(proof, rand) ==
    IF proof.pi <= 0 \/ proof.pi >= proof.n THEN FALSE
    ELSE IF proof.x <= 0 \/ proof.x >= proof.n THEN FALSE
    ELSE IF gcd(proof.x, proof.n) # 1 THEN FALSE
    ELSE IF proof.l <= 2 \/ ~isPrime(proof.l, DEFAULT_ROUNDS, rand) THEN FALSE
    ELSE modpow(proof.x, modpow(2, proof.t, proof.l), proof.n) = proof.h

\* verify(proof) when the random source fills isPrime's buffer with rand.
verify(proof, rand) ==
    IF proof.pi <= 0 \/ proof.pi >= proof.n THEN FALSE
    ELSE IF proof.x <= 0 \/ proof.x >= proof.n THEN FALSE
    ELSE IF gcd(proof.x, proof.n) # 1 THEN FALSE
    ELSE IF proof.l <= 2 \/ ~isPrime(proof.l, DEFAULT_ROUNDS, rand) THEN FALSE
    ELSE LET r == modpow(2, proof.t, proof.l)
             expected == MulMod(modpow(proof.pi, proof.l, proof.n),
                                modpow(proof.x, r, proof.n), proof.n)
         IN  expected = proof.h


\* SHA-512 as a table filled on demand: the digests a query of payload can
\* return, given the digests drawn for earlier queries.
sha512Draws(table, payload, digests) ==
    IF payload \in DOMAIN table THEN {table[payload]} ELSE digests

sha512Record(table, payload, digest) ==
    IF payload \in DOMAIN table THEN table
    ELSE [q \in DOMAIN table \cup {payload} |->
             IF q = payload THEN digest ELSE table[q]]

\* verifyWithChallenge without the call of verify.
verifyWithChallengeSkipsVerify(proof, expectedL, rand) ==
    IF expectedL # proof.l THEN FALSE ELSE TRUE

\* verifyWithChallenge(proof) when the hash returns digest for the proof's
\* transcript, deriveChallenge returns expectedL (one of the values
\* nextPrime can return for that digest) and verify draws rand.
verifyWithChallenge(proof, expectedL, rand) ==
    IF expectedL # proof.l THEN FALSE ELSE verify(proof, rand)

\* The buffers the verify call of verifyWithChallenge can draw.
verifyWithChallengeDraws(proof, expectedL) ==
    IF expectedL # proof.l THEN {NoRandom} ELSE verifyDraws(proof)

(***************************************************************************)
(* The state machine: a caller evaluates the VDF, has a proof generated,   *)
(* and a verifier receives a record (the proof, the proof with one field   *)
(* changed, or a record made up from nothing) and checks it.  prove is     *)
(* also run one iteration at a time.                                       *)
(***************************************************************************)

VARIABLES
    output,     \* the call of evaluate and what it returned
    hashTable,  \* the digests SHA-512 has returned so far, by payload
    proof,      \* the call of generateProof and what it returned
    submitted,  \* the record the verifier holds
    verdict,    \* the call of verify or verifyWithChallenge and its result
    proving,    \* prove(output, l) in progress: its loop state
    call,       \* a call of one of the library's functions and its result
    gen,        \* getPrime(options) in progress: its loop state
    caches      \* the two maps of cached reducers, and the reducer last
                \* handed out

vars ==
    <<output, hashTable, proof, submitted, verdict, proving, call, gen, caches>>

\* Bounds of the inputs.
MaxN == 5
MaxT == 3
MaxDigest == 4
MaxNonceByte == 1
MaxChallenge == 7

\* A modulus of two bytes, and the least value that needs two bytes.
TwoByteModulus == 17 * 19
TwoByteValue == Pow2(8)

\* A digest in the regime of random witnesses whose first wheel candidate
\* above it, 1009 * 1009, is composite with no prime factor up to 1000.
LargeDigest == 1009 * 1009 - 1

\* A modulus with a cube root of unity other than 1: 2^3 = 1 (mod 7).
UnityModulus == Pow2(3) - 1

ModulusValues == 0..MaxN \cup {UnityModulus, TwoByteModulus}
InputValues == (0 - 1)..(MaxN + 1)
TimeValues == (0 - 1)..MaxT
DigestValues == 0..MaxDigest \cup {LargeDigest}
DIGEST_LENGTH == 64
Digests == {bigintToFixedBytes(d, DIGEST_LENGTH).bytes : d \in DigestValues}

\* nextPrime(bytesToBigint(hash)) of deriveChallenge, for each digest the
\* hash can return: the primes the search can come back with.
challengeTable == [d \in DigestValues |-> nextPrime(d, DEFAULT_ROUNDS)]
challengeOf(digest) == challengeTable[bytesToBigint(digest)]

Nonce(b) == [i \in 1..NONCE_LENGTH |-> IF i = NONCE_LENGTH THEN b ELSE 0]
Nonces == {Nonce(b) : b \in 0..MaxNonceByte}
ShortNonce == [i \in 1..(NONCE_LENGTH - 1) |-> 0]

Idle == [st |-> "idle"]

Init ==
    /\ output = Idle
    /\ hashTable = <<>>
    /\ proof = Idle
    /\ submitted = Idle
    /\ verdict = Idle
    /\ proving = Idle
    /\ call = Idle
    /\ gen = Idle
    /\ caches = [vdf |-> <<>>, modpow |-> <<>>, handed |-> Idle]

\* evaluate(x, {n, t})
Evaluate(x, n, t) ==
    /\ output.st = "idle"
    /\ submitted.st = "idle"
    /\ output' = [st |-> "returned", x |-> x, n |-> n, t |-> t,
                  res |-> evaluate(x, n, t)]
    /\ UNCHANGED <<hashTable, proof, submitted, verdict, proving, call, gen, caches>>

HasOutput == output.st = "returned" /\ output.res.err = NoError

\* generateProof(output, nonce); a nonce left out is 32 random bytes.
GenerateProof(nonce) ==
    /\ HasOutput
    /\ proof.st = "idle"
    /\ proving.st = "idle"
    /\ LET out == output.res
           payload == challengePayload(out.x, out.h, out.t, out.n, nonce)
       IN  IF payload.err # NoError
           THEN /\ proof' = [st |-> "returned", res |-> Throw(payload.err)]
                /\ UNCHANGED hashTable
           ELSE \E digest \in sha512Draws(hashTable, payload.bytes, Digests) :
                \E l \in challengeOf(digest) :
                    /\ hashTable' = sha512Record(hashTable, payload.bytes, digest)
                    /\ proof' = [st |-> "returned",
                                 res |-> [err |-> NoError, x |-> out.x,
                                          h |-> out.h, t |-> out.t, n |-> out.n,
                                          pi |-> prove(out.x, out.t, out.n, l),
                                          l |-> l, nonce |-> nonce]]
    /\ UNCHANGED <<output, submitted, verdict, proving, call, gen, caches>>

HasProof == proof.st = "returned" /\ proof.res.err = NoError

ProofRecord(x, h, t, n, pi, l, nonce) ==
    [x |-> x, h |-> h, t |-> t, n |-> n, pi |-> pi, l |-> l, nonce |-> nonce]

\* The records a verifier can be handed in place of the proof p: p itself, or
\* p with one field changed.
Handed(p) ==
    LET honest == ProofRecord(p.x, p.h, p.t, p.n, p.pi, p.l, p.nonce)
    IN  {[how |-> "honest", rec |-> honest]}
        \cup {[how |-> "x", rec |-> [honest EXCEPT !.x = v]] :
                 v \in {p.x + 1, p.n - p.x} \ {p.x}}
        \cup {[how |-> "h", rec |-> [honest EXCEPT !.h = v]] :
                 v \in {p.h + 1, TwoByteValue} \ {p.h}}
        \cup {[how |-> "t", rec |-> [honest EXCEPT !.t = v]] :
                 v \in {p.t + 2}}
        \cup {[how |-> "n", rec |-> [honest EXCEPT !.n = v]] :
                 v \in {p.n + 1}}
        \cup {[how |-> "nonce", rec |-> [honest EXCEPT !.nonce = v]] :
                 v \in {Nonce((p.nonce[NONCE_LENGTH] + 1) % (MaxNonceByte + 1))}}
        \cup {[how |-> "pi", rec |-> [honest EXCEPT !.pi = v]] :
                 v \in {p.pi + 1, p.pi + 2, p.n - p.pi} \ {p.pi}}
        \cup {[how |-> "l", rec |-> [honest EXCEPT !.l = v]] :
                 v \in {p.l + 2}}

\* The verifier receives the proof, or the proof with one field changed.
Submit ==
    /\ HasProof
    /\ submitted.st = "idle"
    /\ \E s \in Handed(proof.res) :
          submitted' = [st |-> "received", how |-> s.how, rec |-> s.rec]
    /\ UNCHANGED <<output, hashTable, proof, verdict, proving, call, gen, caches>>

\* Records made up from nothing.
ForgedRecords ==
    {ProofRecord(x, h, t, n, pi, l, Nonce(0)) :
        x \in {0, 1, 2, TwoByteValue}, h \in {0, 1, 2}, t \in {0, 2},
        n \in {1, 4, 5}, pi \in {0, 1, 2}, l \in {2, 3, 4, LargeDigest + 1}}

\* The verifier receives a record that no prover made.
Forge ==
    /\ output.st = "idle"
    /\ submitted.st = "idle"
    /\ \E rec \in ForgedRecords :
          submitted' = [st |-> "received", how |-> "forged", rec |-> rec]
    /\ UNCHANGED <<output, hashTable, proof, verdict, proving, call, gen, caches>>

\* verify(submitted)
Verify ==
    /\ submitted.st = "received"
    /\ verdict.st = "idle"
    /\ \E rand \in verifyDraws(submitted.rec) :
          verdict' = [st |-> "returned", fn |-> "verify", err |-> NoError,
                      ok |-> verify(submitted.rec, rand), rand |-> rand]
    /\ UNCHANGED <<output, hashTable, proof, submitted, proving, call, gen, caches>>

\* verifyWithChallenge(submitted)
VerifyWithChallenge ==
    /\ submitted.st = "received"
    /\ verdict.st = "idle"
    /\ LET rec == submitted.rec
           payload == challengePayload(rec.x, rec.h, rec.t, rec.n, rec.nonce)
       IN  IF payload.err # NoError
           THEN /\ verdict' = [st |-> "returned", fn |-> "verifyWithChallenge",
                               err |-> payload.err]
                /\ UNCHANGED hashTable
           ELSE \E digest \in sha512Draws(hashTable, payload.bytes, Digests) :
                \E expectedL \in challengeOf(digest) :
                \E rand \in verifyWithChallengeDraws(rec, expectedL) :
                    /\ hashTable' = sha512Record(hashTable, payload.bytes, digest)
                    /\ verdict' = [st |-> "returned",
                                   fn |-> "verifyWithChallenge",
                                   err |-> NoError,
                                   ok |-> verifyWithChallenge(rec, expectedL, rand),
                                   expectedL |-> expectedL, rand |-> rand]
    /\ UNCHANGED <<output, proof, submitted, proving, call, gen, caches>>

\* prove(output, l) is entered: pi = 1, r = 1, i = 0.
ProveStart(l) ==
    /\ HasOutput
    /\ proof.st = "idle"
    /\ proving.st = "idle"
    /\ proving' = [st |-> "running", x |-> output.res.x, t |-> output.res.t,
                   n |-> output.res.n, l |-> l, i |-> 0, pi |-> 1, r |-> 1]
    /\ UNCHANGED <<output, hashTable, proof, submitted, verdict, call, gen, caches>>

\* One iteration of prove's loop; after the last one prove returns pi.
ProveStep ==
    /\ proving.st = "running"
    /\ proving.i < proving.t
    /\ LET st == proveStep([pi |-> proving.pi, r |-> proving.r],
                           proving.x, proving.n, proving.l)
       IN  proving' = [proving EXCEPT
                          !.pi = st.pi, !.r = st.r, !.i = proving.i + 1,
                          !.st = IF proving.i + 1 = proving.t
                                 THEN "returned" ELSE "running"]
    /\ UNCHANGED <<output, hashTable, proof, submitted, verdict, call, gen, caches>>

Next ==
    \/ \E x \in InputValues, n \in ModulusValues, t \in TimeValues :
          Evaluate(x, n, t)
    \/ \E nonce \in Nonces \cup {ShortNonce} : GenerateProof(nonce)
    \/ Submit
    \/ Forge
    \/ Verify
    \/ VerifyWithChallenge
    \/ \E l \in 2..MaxChallenge : ProveStart(l)
    \/ ProveStep

Spec == Init /\ [][Next]_vars

(***************************************************************************)
(* Reference definitions: the mathematics the properties are stated in.    *)
(***************************************************************************)

RECURSIVE RefPowMod(_, _, _)
\* b^e mod m, for e >= 0 and 1 <= m <= SafeFactor.
RefPowMod(b, e, m) ==
    IF e = 0 THEN 1 % m
    ELSE LET half == RefPowMod(b, e \div 2, m)
             sq == (half * half) % m
         IN  IF e % 2 = 0 THEN sq ELSE (sq * (b % m)) % m

\* x and n (both positive) have no common divisor but 1.
RefCoprime(x, n) == \A d \in 2..Min(x, n) : x % d # 0 \/ n % d # 0

\* l is prime, for l < (2 * SMALL_PRIME_LIMIT)^2.
RefIsPrime(l) ==
    /\ l >= 2
    /\ \A d \in 2..Min(l - 1, 2 * SMALL_PRIME_LIMIT) : d * d > l \/ l % d # 0

\* l has a prime factor among SMALL_PRIMES and is not that prime.
RefHasSmallFactor(l) ==
    \E d \in 2..Min(l - 1, SMALL_PRIME_LIMIT) : l % d = 0

\* The inputs evaluate accepts.
RefValidInput(x, n, t) == 0 < x /\ x < n /\ RefCoprime(x, n) /\ t >= 1

\* The records that pass the validation of verify, l being truly prime.
RefValidRecord(rec) ==
    /\ 0 < rec.pi /\ rec.pi < rec.n
    /\ 0 < rec.x /\ rec.x < rec.n
    /\ RefCoprime(rec.x, rec.n)
    /\ rec.l > 2 /\ RefIsPrime(rec.l)
    /\ rec.t >= 0

\* (pi^l mod n * x^r mod n) mod n = h with r = 2^t mod l.
RefEquation(rec) ==
    (RefPowMod(rec.pi, rec.l, rec.n)
        * RefPowMod(rec.x, Pow2(rec.t) % rec.l, rec.n)) % rec.n = rec.h

Evaluated == output.st = "returned"
Verified == verdict.st = "returned" /\ verdict.fn = "verify"
FullyVerified == verdict.st = "returned" /\ verdict.fn = "verifyWithChallenge"
Honest == submitted.st = "received" /\ submitted.how = "honest"

(***************************************************************************)
(* Properties.                                                             *)
(***************************************************************************)

\* C1: roundtrip.  Whatever valid x, n, t were evaluated, whatever the nonce
\* and whatever digest the hash returned for the transcript, verify returns
\* true on the proof generateProof returned.
C1_Roundtrip == (Verified /\ Honest) => verdict.ok

\* C2: full roundtrip.  verifyWithChallenge resolves to true on the proof
\* generateProof returned: it does not raise, the re-derived challenge
\* equals the proof's l, and the equation check passes.
C2_FullRoundtrip ==
    (FullyVerified /\ Honest) =>
        /\ verdict.err = NoError
        /\ verdict.expectedL = submitted.rec.l
        /\ verdict.ok

\* C3: for every valid input evaluate returns the record (x, h, t, n) with
\* x, t, n the inputs and h = x^(2^t) mod n.
C3_EvaluateResult ==
    (Evaluated /\ RefValidInput(output.x, output.n, output.t)) =>
        output.res = [err |-> NoError, x |-> output.x,
                      h |-> RefPowMod(output.x, Pow2(output.t), output.n),
                      t |-> output.t, n |-> output.n]

\* C3 happens: 2 squared three times modulo 323 is 256.
C3_Witness ==
    /\ Evaluated
    /\ output.x = 2 /\ output.n = TwoByteModulus /\ output.t = 3
    /\ output.res.err = NoError
    /\ output.res.h = 256

\* C4 as stated: evaluate raises exactly on the invalid inputs, and the
\* error it raises when t <= 0 or when x is out of range is a RangeError.
C4_AsStated ==
    Evaluated =>
        /\ output.res.err # NoError
              <=> ~RefValidInput(output.x, output.n, output.t)
        /\ (output.t <= 0 \/ output.x <= 0 \/ output.x >= output.n)
              => output.res.err = RangeError

\* C4 amended: evaluate raises exactly on the invalid inputs; the error is a
\* RangeError when x is out of range, a plain Error when x is in range and
\* not coprime to n (whatever t is), and a RangeError when x is in range and
\* coprime to n and t <= 0.
C4_ErrorKinds ==
    Evaluated =>
        LET x == output.x
            n == output.n
            t == output.t
            inRange == 0 < x /\ x < n
        IN  /\ output.res.err # NoError <=> ~RefValidInput(x, n, t)
            /\ ~inRange => output.res.err = RangeError
            /\ (inRange /\ ~RefCoprime(x, n)) => output.res.err = PlainError
            /\ (inRange /\ RefCoprime(x, n) /\ t <= 0)
                  => output.res.err = RangeError

\* C4 happens: x = 2 shares a factor with n = 4 and t = 0; a plain Error.
C4_Witness ==
    /\ Evaluated
    /\ output.x = 2 /\ output.n = 4 /\ output.t = 0
    /\ output.res.err = PlainError

\* The record fails one of verify's checks on pi and x.
RefOutOfBounds(rec) ==
    \/ rec.pi <= 0 \/ rec.pi >= rec.n
    \/ rec.x <= 0 \/ rec.x >= rec.n
    \/ ~RefCoprime(rec.x, rec.n)

C6_Equation ==
    Verified =>
        /\ RefValidRecord(submitted.rec)
              => (verdict.ok <=> RefEquation(submitted.rec))
        /\ submitted.how = "h" => ~verdict.ok

\* C6 happens: a valid record with pi > 1 is accepted.
C6_Witness ==
    /\ Verified
    /\ RefValidRecord(submitted.rec)
    /\ submitted.rec.pi > 1
    /\ verdict.ok

\* C7: when deriveChallenge returns a challenge other than proof.l,
\* verifyWithChallenge returns false; when it returns proof.l,
\* verifyWithChallenge returns what verify(proof) returns.
C7_ChallengeCheck ==
    (FullyVerified /\ verdict.err = NoError) =>
        IF verdict.expectedL # submitted.rec.l
        THEN ~verdict.ok
        ELSE verdict.ok = verify(submitted.rec, verdict.rand)

\* C7 happens: an honest proof whose l was replaced by l + 2 is rejected
\* because the re-derived challenge is the old l.
C7_Witness ==
    /\ FullyVerified
    /\ submitted.how = "l"
    /\ verdict.err = NoError
    /\ verdict.expectedL = proof.res.l
    /\ verdict.expectedL # submitted.rec.l
    /\ ~verdict.ok

\* A record that differs from the proof in one of x, h, t, n, nonce.
TranscriptChanged ==
    /\ submitted.st = "received"
    /\ submitted.how \in {"x", "h", "t", "n", "nonce"}

\* C8: challenge binding.  On a record that differs from the proof in one
\* of x, h, t, n or nonce, verifyWithChallenge returns false.
C8_Binding ==
    (FullyVerified /\ TranscriptChanged) =>
        /\ verdict.err = NoError
        /\ ~verdict.ok

\* The record violates the bounds: x, h or pi is not in (0, n), or x or h
\* does not fit in the byte length of n.
BoundsViolated(rec) ==
    \/ rec.x <= 0 \/ rec.x >= rec.n
    \/ rec.h < 0 \/ rec.h >= rec.n
    \/ rec.pi <= 0 \/ rec.pi >= rec.n

\* C9: on a record whose fields violate the bounds verifyWithChallenge
\* resolves to false; it does not raise.
C9_NoException ==
    (FullyVerified /\ BoundsViolated(submitted.rec)) =>
        /\ verdict.err = NoError
        /\ ~verdict.ok

\* C10: after iteration i >= 1 of prove's loop, 0 <= r < l, r = 2^i mod l
\* and pi = x^floor(2^i / l) mod n; prove returns x^floor(2^t / l) mod n.
C10_ProverInvariant ==
    /\ (proving.st \in {"running", "returned"} /\ proving.i >= 1) =>
          /\ 0 <= proving.r /\ proving.r < proving.l
          /\ proving.r = Pow2(proving.i) % proving.l
          /\ proving.pi = RefPowMod(proving.x, Pow2(proving.i) \div proving.l,
                                    proving.n)
    /\ proving.st = "returned" => proving.i = proving.t
    /\ HasProof =>
          proof.res.pi = RefPowMod(proof.res.x,
                                   Pow2(proof.res.t) \div proof.res.l,
                                   proof.res.n)

\* C10 happens: the loop has run to its end with a quotient 2^t / l of 2 or
\* more and a result other than 1.
C10_Witness ==
    /\ proving.st = "returned"
    /\ proving.i = proving.t
    /\ Pow2(proving.t) \div proving.l >= 2
    /\ proving.pi > 1

(***************************************************************************)
(* The library's functions called one at a time: a caller picks a function *)
(* and its arguments, and call holds what the function returned.           *)
(***************************************************************************)

\* Bounds of the arguments.
MaxOddModulus == 9

OddModuli == {n \in 3..MaxOddModulus : n % 2 = 1} \cup {TwoByteModulus}

NotCalled == call.st = "idle"
Called(fn) == call.st = "returned" /\ call.fn = fn

\* The two branches of evaluate on the same (x, n, t).
CallEvaluateBranches(x, n, t) ==
    /\ NotCalled
    /\ 0 < x /\ x < n
    /\ call' = [st |-> "returned", fn |-> "evaluate", x |-> x, n |-> n, t |-> t,
                plain |-> evaluatePlain(x, n, t),
                montgomery |-> evaluateMontgomery(x, n, t)]
    /\ UNCHANGED <<output, hashTable, proof, submitted, verdict, proving, gen, caches>>

\* The two branches of prove on the same (x, t, n, l).
CallProveBranches(x, t, n, l) ==
    /\ NotCalled
    /\ 0 < x /\ x < n
    /\ call' = [st |-> "returned", fn |-> "prove", x |-> x, n |-> n, t |-> t,
                l |-> l, plain |-> provePlain(x, t, n, l),
                montgomery |-> proveMontgomery(x, t, n, l)]
    /\ UNCHANGED <<output, hashTable, proof, submitted, verdict, proving, gen, caches>>

\* Bound of the small arguments of the prime functions.
MaxPrimeArgument == 250

\* Carmichael numbers; primes and composites beyond SMALL_PRIME_LIMIT, the
\* composites without a prime factor up to it, 1093 * 1093 a strong
\* pseudoprime to the base 2.
CarmichaelNumbers == {561, 1105, 1729}
LargePrimes == {1009, 1013, 999983, 1000003, 1018091}
LargeComposites == {1009 * 1009, 1009 * 1013, 1093 * 1093}

PrimeArguments ==
    (0 - 3)..MaxPrimeArgument \cup CarmichaelNumbers \cup LargePrimes
        \cup LargeComposites

\* nextPrime(n); every isPrime call of the walk draws its own witnesses.
CallNextPrime(n) ==
    /\ NotCalled
    /\ \E p \in nextPrime(n, DEFAULT_ROUNDS) :
          call' = [st |-> "returned", fn |-> "nextPrime", n |-> n, res |-> p]
    /\ UNCHANGED <<output, hashTable, proof, submitted, verdict, proving, gen, caches>>

\* isPrime(n) for n below the bound of the fixed witnesses.
CallIsPrime(n) ==
    /\ NotCalled
    /\ call' = [st |-> "returned", fn |-> "isPrime", n |-> n,
                res |-> isPrimeDeterministic(n)]
    /\ UNCHANGED <<output, hashTable, proof, submitted, verdict, proving, gen, caches>>

\* Numbers of rounds: none, one, two and the default.
Rounds == {0, 1, 2, DEFAULT_ROUNDS}

\* Primes and composites that isPrime tests with random witnesses, the
\* composites without a prime factor up to SMALL_PRIME_LIMIT.
RandomRegimePrimes == {1000003, 1018091, Pow2(21) - 9}
RandomRegimeComposites == {1009 * 1009, 1009 * 1013, 1093 * 1093}

RoundsArguments ==
    PrimeArguments \cup RandomRegimePrimes \cup RandomRegimeComposites

\* The values of a chunk of nBytes bytes of the random buffer: the values of
\* RandomValues, those that give the least and the greatest witness, one
\* that wraps around, and the chunk of all bytes 255.
RandomChunks(n) ==
    RandomValues \cup {n - 5, n - 4, n - 2, Pow2(8 * bigintByteLength(n)) - 1}

\* The buffers crypto.getRandomValues fills for k rounds: the first chunk
\* and the value of all later chunks are drawn independently.
RoundsBuffers(n, k) ==
    IF drawsRandom(n)
    THEN {[i \in 1..k |-> IF i = 1 THEN r1 ELSE r2] :
             r1 \in RandomChunks(n), r2 \in RandomChunks(n)}
    ELSE {NoRandom}

\* isPrime(n, {rounds: k}) with the witnesses its random rounds used.
CallIsPrimeRounds(n, k) ==
    /\ NotCalled
    /\ \E rand \in RoundsBuffers(n, k) :
          call' = [st |-> "returned", fn |-> "isPrimeRounds", n |-> n,
                   k |-> k, rand |-> rand, res |-> isPrime(n, k, rand),
                   witnesses |->
                       IF drawsRandom(n)
                       THEN LET ds == oddPart([d |-> n - 1, s |-> 0])
                            IN  randomWitnessesUsed(n, ds.d, ds.s, rand, k, 0)
                       ELSE {}]
    /\ UNCHANGED <<output, hashTable, proof, submitted, verdict, proving, gen,
                   caches>>

\* Bounds of the arguments of modpow.
MaxBase == 5
MaxExponent == 70
MaxModulus == 9

\* The window sizes selectWindowSize returns for exponents that take the
\* windowed path (more than MODPOW_WINDOW_THRESHOLD_BITS bits).
WindowSizes == {selectWindowSize(MODPOW_WINDOW_THRESHOLD_BITS + 1),
                selectWindowSize(96 + 1), selectWindowSize(384 + 1),
                selectWindowSize(1024 + 1)}

\* modpow(x, y, p).
CallModpow(x, y, p) ==
    /\ NotCalled
    /\ call' = [st |-> "returned", fn |-> "modpow", x |-> x, y |-> y, p |-> p,
                res |-> modpow(x, y, p)]
    /\ UNCHANGED <<output, hashTable, proof, submitted, verdict, proving, gen, caches>>

\* The windowed branches of modpow on (x, y, p), entered as modpow enters
\* them: base = x % p, bits = y.toString(2), y beyond the edge cases.  Of
\* the conditions of shouldUseMontgomeryForModpow the sizes of p and y are
\* beyond the integers here; the parity of p is kept: the Montgomery branch
\* is entered for odd p only.
CallModpowWindowed(x, y, p, window) ==
    /\ NotCalled
    /\ p > 1 /\ y > 2
    /\ call' = [st |-> "returned", fn |-> "modpowWindowed",
                x |-> x, y |-> y, p |-> p, window |-> window,
                plain |-> modpowWindowedPlain(x % p, toStringRadix(y, 2),
                                              window, p),
                montgomery |->
                    IF p % 2 = 1
                    THEN modpowWindowedMontgomery(x % p, toStringRadix(y, 2),
                                                  window, p)
                    ELSE modpowWindowedPlain(x % p, toStringRadix(y, 2),
                                             window, p)]
    /\ UNCHANGED <<output, hashTable, proof, submitted, verdict, proving, gen, caches>>

\* new MontgomeryReducer(n): the constructor assigns its fields and has no
\* throw statement, so the call yields the reducer, with err "none".
CallMontgomeryReducer(n) ==
    /\ NotCalled
    /\ call' = [st |-> "returned", fn |-> "MontgomeryReducer", n |-> n,
                err |-> NoError, mont |-> MontgomeryReducer(n)]
    /\ UNCHANGED <<output, hashTable, proof, submitted, verdict, proving, gen, caches>>

\* The arguments of reduce: every x in 0..n*r-1 for the small moduli, the
\* ends of the range and the values around n and r for the two-byte one.
ReduceArguments(n) ==
    LET r == MontgomeryReducer(n).r
    IN  IF n <= MaxOddModulus THEN 0..(n * r - 1)
        ELSE {0, 1, n - 1, n, r - 1, r, r + 1, n * r - n, n * r - 1}

\* new MontgomeryReducer(n), then reduce(x).
CallReduce(n, x) ==
    /\ NotCalled
    /\ call' = [st |-> "returned", fn |-> "reduce", n |-> n, x |-> x,
                mont |-> MontgomeryReducer(n),
                res |-> reduce(MontgomeryReducer(n), x)]
    /\ UNCHANGED <<output, hashTable, proof, submitted, verdict, proving, gen, caches>>

\* new MontgomeryReducer(n), then fromMontgomery(toMontgomery(a)) and
\* multiply(toMontgomery(a), toMontgomery(b)).
CallMontgomeryMultiply(n, a, b) ==
    /\ NotCalled
    /\ LET mont == MontgomeryReducer(n)
       IN  call' = [st |-> "returned", fn |-> "multiply", n |-> n,
                    a |-> a, b |-> b, mont |-> mont,
                    back |-> fromMontgomery(mont, toMontgomery(mont, a)),
                    product |-> montMultiply(mont, toMontgomery(mont, a),
                                             toMontgomery(mont, b)),
                    square |-> montSquare(mont, toMontgomery(mont, a))]
    /\ UNCHANGED <<output, hashTable, proof, submitted, verdict, proving, gen, caches>>

\* Bounds of the walk on the wheel: its starts and its length.
MaxWheelStart == 220
MaxWheelSteps == 50

\* The starts of the walk: every residue modulo 210 above 7, and the large
\* digest.
WheelStarts == 8..MaxWheelStart \cup {LargeDigest}

\* alignToWheel(n), as nextPrime and getPrime call it before their walk;
\* from is the least integer the walk has not passed yet.
CallAlignToWheel(n) ==
    /\ NotCalled
    /\ LET aligned == alignToWheel(n)
       IN  call' = [st |-> "returned", fn |-> "wheel", n |-> n, from |-> n,
                    p |-> aligned.p, idx |-> aligned.idx, steps |-> 0]
    /\ UNCHANGED <<output, hashTable, proof, submitted, verdict, proving, gen,
                   caches>>

\* One step of the walk of nextPrime and getPrime:
\* p += increments[idx]; idx = (idx + 1) % increments.length
WheelStep ==
    /\ Called("wheel")
    /\ call.steps < MaxWheelSteps
    /\ call' = [call EXCEPT
                    !.from = call.p + 1,
                    !.p = call.p + WHEEL_INCREMENTS[call.idx + 1],
                    !.idx = (call.idx + 1) % Len(WHEEL_INCREMENTS),
                    !.steps = call.steps + 1]
    /\ UNCHANGED <<output, hashTable, proof, submitted, verdict, proving, gen,
                   caches>>

\* Any one call.
CallNext ==
    \/ \E n \in OddModuli, x \in InputValues, t \in 1..MaxT :
          CallEvaluateBranches(x, n, t)
    \/ \E n \in OddModuli, x \in InputValues, t \in 1..MaxT,
          l \in 2..MaxChallenge : CallProveBranches(x, t, n, l)
    \/ \E n \in PrimeArguments \cup {LargeDigest - 1, LargeDigest} :
          CallNextPrime(n)
    \/ \E n \in PrimeArguments : CallIsPrime(n)
    \/ \E n \in RoundsArguments, k \in Rounds : CallIsPrimeRounds(n, k)
    \/ \E x \in 0..MaxBase, y \in 0..MaxExponent, p \in 1..MaxModulus :
          CallModpow(x, y, p)
    \/ \E x \in 0..MaxBase, y \in 0..MaxExponent, p \in 1..MaxModulus,
          window \in WindowSizes : CallModpowWindowed(x, y, p, window)
    \/ \E n \in 1..MaxModulus : CallMontgomeryReducer(n)
    \/ \E n \in OddModuli : \E x \in ReduceArguments(n) : CallReduce(n, x)
    \/ \E n \in OddModuli : \E a \in 0..MaxOddModulus, b \in 0..MaxOddModulus :
          CallMontgomeryMultiply(n, a, b)
    \/ \E n \in WheelStarts : CallAlignToWheel(n)
    \/ WheelStep

CallSpec == Init /\ [][CallNext]_vars

(***************************************************************************)
(* The scan of modpowWindowedCore run one turn of its loop at a time: call *)
(* holds the bit string, the index i and the window last extracted.        *)
(***************************************************************************)

\* Bound of the exponents scanned.
MaxScanExponent == 300

\* Every window size selectWindowSize returns.
AllWindowSizes == WindowSizes \cup {selectWindowSize(1)}

\* modpowWindowedCore is entered with bits = y.toString(2) and fills its
\* table; entries are the indices of the table that were assigned.
WindowScanStart(y, window) ==
    /\ NotCalled
    /\ call' = [st |-> "returned", fn |-> "scan", y |-> y,
                bits |-> toStringRadix(y, 2), window |-> window,
                entries |-> DOMAIN windowTableOf(PlainOps(MaxModulus), 2, window),
                kind |-> "start", last |-> 0 - 1, i |-> 0, j |-> 0, win |-> 1]
    /\ UNCHANGED <<output, hashTable, proof, submitted, verdict, proving, gen,
                   caches>>

\* One turn of the while loop: a 0 bit moves i by one; a 1 bit extracts
\* the window i..j-1, reads table[win] and moves i to j.
WindowScanStep ==
    /\ Called("scan")
    /\ call.i < Len(call.bits)
    /\ IF call.bits[call.i + 1] = 0
       THEN call' = [call EXCEPT !.kind = "zero", !.last = call.i,
                                 !.i = call.i + 1]
       ELSE LET j == trimWindow(call.bits,
                                Min(call.i + call.window, Len(call.bits)))
                win == windowValue(call.bits, call.i, j, 0)
            IN  call' = [call EXCEPT !.kind = "window", !.last = call.i,
                                     !.j = j, !.win = win, !.i = j]
    /\ UNCHANGED <<output, hashTable, proof, submitted, verdict, proving, gen,
                   caches>>

WindowScanNext ==
    \/ \E y \in 1..MaxScanExponent, window \in AllWindowSizes :
          WindowScanStart(y, window)
    \/ WindowScanStep

WindowScanSpec == Init /\ [][WindowScanNext]_vars

(***************************************************************************)
(* The payload of deriveChallenge computed for two transcripts: call holds *)
(* the two tuples (x, h, t, n, nonce) and what each of them yields.        *)
(***************************************************************************)

\* Values of x and h: negative, zero, of one byte and of two bytes.
TranscriptValues == {0 - 1, 0, 1, TwoByteValue, TwoByteValue + 1}

\* Values of t: of one byte and of two bytes.
TranscriptTimes == {1, TwoByteValue}

\* Moduli of one, two and three bytes.
TranscriptModuli == {TwoByteValue - 1, TwoByteValue + 1, Pow2(16) + 1}

Transcripts ==
    [x : TranscriptValues, h : TranscriptValues, t : TranscriptTimes,
     n : TranscriptModuli, nonce : Nonces]

\* deriveChallenge's payload for each of the tuples.
payloadOf == [a \in Transcripts |-> challengePayload(a.x, a.h, a.t, a.n, a.nonce)]

\* deriveChallenge on the tuple a and on a second tuple b.
CallDeriveChallenge(a) ==
    /\ NotCalled
    /\ \E b \in Transcripts :
          call' = [st |-> "returned", fn |-> "transcript", a |-> a, b |-> b,
                   pa |-> payloadOf[a], pb |-> payloadOf[b]]
    /\ UNCHANGED <<output, hashTable, proof, submitted, verdict, proving, gen,
                   caches>>

TranscriptNext == \E a \in Transcripts : CallDeriveChallenge(a)

TranscriptSpec == Init /\ [][TranscriptNext]_vars

(***************************************************************************)
(* The caches of reducers.  A Map is a function from its keys; caches.vdf  *)
(* is montgomeryCache (vdf.ts), caches.modpow is modpowMontgomeryCache     *)
(* (utils.ts).  evaluate, prove and modpow reach them on the Montgomery    *)
(* branch, which the sizes of n, t and y select: the calls below are calls *)
(* that take that branch.                                                  *)
(***************************************************************************)

\* if (montgomeryCache.size < 10)
MONTGOMERY_CACHE_LIMIT == 10

\* getMontgomeryReducer that sets the entry whatever the size of the map.
getMontgomeryReducerUnbounded(cache, n) ==
    IF n \in DOMAIN cache THEN [reducer |-> cache[n], cache |-> cache]
    ELSE [reducer |-> MontgomeryReducer(n),
          cache |-> [k \in DOMAIN cache \cup {n} |->
                        IF k = n THEN MontgomeryReducer(n) ELSE cache[k]]]

\* getMontgomeryReducer(n) (vdf.ts) on the map cache: the reducer returned
\* and the map afterwards.
getMontgomeryReducer(cache, n) ==
    IF n \in DOMAIN cache THEN [reducer |-> cache[n], cache |-> cache]
    ELSE [reducer |-> MontgomeryReducer(n),
          cache |-> IF Cardinality(DOMAIN cache) < MONTGOMERY_CACHE_LIMIT
                    THEN [k \in DOMAIN cache \cup {n} |->
                             IF k = n THEN MontgomeryReducer(n) ELSE cache[k]]
                    ELSE cache]

\* getMontgomeryReducerCached(n) (utils.ts) on the map cache.
getMontgomeryReducerCached(cache, n) ==
    IF n \in DOMAIN cache THEN [reducer |-> cache[n], cache |-> cache]
    ELSE [reducer |-> MontgomeryReducer(n),
          cache |-> IF Cardinality(DOMAIN cache) < MODPOW_MONTGOMERY_CACHE_LIMIT
                    THEN [k \in DOMAIN cache \cup {n} |->
                             IF k = n THEN MontgomeryReducer(n) ELSE cache[k]]
                    ELSE cache]

\* The moduli of a call that reaches the map cache: a modulus the map holds,
\* or a new one.  The maps use a modulus as a key only, so the new modulus
\* is taken to be the least odd n > 1 that is not a key.
CacheModuli(cache) ==
    DOMAIN cache
        \cup {CHOOSE n \in 3..(2 * Cardinality(DOMAIN cache) + 3) :
                  /\ n % 2 = 1
                  /\ n \notin DOMAIN cache
                  /\ \A m \in 3..(n - 1) : m % 2 = 1 => m \in DOMAIN cache}

\* The odd moduli from which the calls draw: enough to fill a map and one
\* more.
CachePool ==
    {n \in 3..(2 * MONTGOMERY_CACHE_LIMIT + 3) : n % 2 = 1}

\* evaluate(x, {n, t}) on its Montgomery branch: getMontgomeryReducer(n).
CacheEvaluate(n) ==
    /\ n \in CacheModuli(caches.vdf)
    /\ LET got == getMontgomeryReducer(caches.vdf, n)
       IN  caches' = [caches EXCEPT
                         !.vdf = got.cache,
                         !.handed = [st |-> "returned", fn |-> "evaluate",
                                     n |-> n, reducer |-> got.reducer]]
    /\ UNCHANGED <<output, hashTable, proof, submitted, verdict, proving,
                   call, gen>>

\* prove(output, l) on its Montgomery branch: getMontgomeryReducer(n).
CacheProve(n) ==
    /\ n \in CacheModuli(caches.vdf)
    /\ LET got == getMontgomeryReducer(caches.vdf, n)
       IN  caches' = [caches EXCEPT
                         !.vdf = got.cache,
                         !.handed = [st |-> "returned", fn |-> "prove",
                                     n |-> n, reducer |-> got.reducer]]
    /\ UNCHANGED <<output, hashTable, proof, submitted, verdict, proving,
                   call, gen>>

\* modpow(x, y, p) on its Montgomery branch: getMontgomeryReducerCached(p).
CacheModpow(p) ==
    /\ p \in CacheModuli(caches.modpow)
    /\ LET got == getMontgomeryReducerCached(caches.modpow, p)
       IN  caches' = [caches EXCEPT
                         !.modpow = got.cache,
                         !.handed = [st |-> "returned", fn |-> "modpow",
                                     n |-> p, reducer |-> got.reducer]]
    /\ UNCHANGED <<output, hashTable, proof, submitted, verdict, proving,
                   call, gen>>

CacheNext ==
    \/ \E n \in CachePool : CacheEvaluate(n)
    \/ \E n \in CachePool : CacheProve(n)
    \/ \E p \in CachePool : CacheModpow(p)

CacheSpec == Init /\ [][CacheNext]_vars

(***************************************************************************)
(* getPrime run one step at a time: gen holds the position in its loops.   *)
(***************************************************************************)

\* Bound of the bit lengths asked for.
MaxBits == 9

\* The bit lengths asked for: the small ones, two bytes, three bytes.
BitLengths == 1..MaxBits \cup {16, 24}

ByteLengths == {getPrimeByteLength(bits) : bits \in BitLengths}

\* The bytes the random source is taken to put in the buffer.
SampleBytes == {0, 24, 188, 209, 255}

\* The buffers of byteLen bytes the random source can fill.
SampleBuffers(byteLen) == [1..byteLen -> SampleBytes]

\* getPrime({bits}) is entered: the buffer is allocated, max computed.
GetPrimeStart(bits) ==
    /\ gen.st = "idle"
    /\ gen' = [st |-> "sample", bits |-> bits, rounds |-> DEFAULT_ROUNDS,
               byteLen |-> getPrimeByteLength(bits),
               max |-> getPrimeMax(bits), x |-> <<>>]
    /\ UNCHANGED <<output, hashTable, proof, submitted, verdict, proving, call, caches>>

\* The top of the outer loop: the random source fills the buffer with x;
\* the aligned candidate is beyond max (continue) or the walk begins.
GetPrimeSample(x) ==
    /\ gen.st = "sample"
    /\ Len(x) = gen.byteLen
    /\ LET aligned == alignToWheel(getPrimeCandidate(x))
       IN  gen' = IF aligned.p > gen.max
                  THEN [st |-> "sample", bits |-> gen.bits,
                        rounds |-> gen.rounds, byteLen |-> gen.byteLen,
                        max |-> gen.max, x |-> x]
                  ELSE [st |-> "walk", bits |-> gen.bits,
                        rounds |-> gen.rounds, byteLen |-> gen.byteLen,
                        max |-> gen.max, x |-> x,
                        p |-> aligned.p, idx |-> aligned.idx]
    /\ UNCHANGED <<output, hashTable, proof, submitted, verdict, proving, call, caches>>

\* One turn of the inner loop: p > max ends it and the outer loop starts
\* over; isPrime(p) returns p; otherwise p moves to the next candidate.
GetPrimeTest ==
    /\ gen.st = "walk"
    /\ IF gen.p > gen.max
       THEN gen' = [st |-> "sample", bits |-> gen.bits, rounds |-> gen.rounds,
                    byteLen |-> gen.byteLen, max |-> gen.max, x |-> gen.x]
       ELSE \E rand \in isPrimeDraws(gen.p, gen.rounds) :
               IF isPrime(gen.p, gen.rounds, rand)
               THEN gen' = [st |-> "returned", bits |-> gen.bits,
                            rounds |-> gen.rounds, res |-> gen.p,
                            rand |-> rand]
               ELSE gen' = [gen EXCEPT
                               !.p = gen.p + WHEEL_INCREMENTS[gen.idx + 1],
                               !.idx = (gen.idx + 1) % Len(WHEEL_INCREMENTS)]
    /\ UNCHANGED <<output, hashTable, proof, submitted, verdict, proving, call, caches>>

GetPrimeNext ==
    \/ \E bits \in BitLengths : GetPrimeStart(bits)
    \/ \E len \in ByteLengths : \E x \in SampleBuffers(len) : GetPrimeSample(x)
    \/ GetPrimeTest

\* The random source fills the buffer with a first byte b.
GetPrimeSampleFirst(b) ==
    \E len \in ByteLengths :
        \E x \in SampleBuffers(len) : x[1] = b /\ GetPrimeSample(x)

\* A fair random source: every value of the first byte comes up again and
\* again; the loop itself keeps running.
GetPrimeFairness ==
    /\ WF_vars(GetPrimeTest)
    /\ \A b \in SampleBytes : SF_vars(GetPrimeSampleFirst(b))

GetPrimeSpec == Init /\ [][GetPrimeNext]_vars /\ GetPrimeFairness

(***************************************************************************)
(* Properties of the functions.                                            *)
(***************************************************************************)

\* C11: Montgomery parity.  For an odd modulus n > 1, 0 < x < n, t >= 1 and
\* l >= 2 the Montgomery branch of evaluate returns the h of the plain
\* branch, and the Montgomery branch of prove the pi of the plain branch.
C11_MontgomeryParity ==
    (Called("evaluate") \/ Called("prove")) => call.montgomery = call.plain

\* C11 happens: both branches of prove return the same pi, which is not 1.
C11_Witness ==
    /\ Called("prove")
    /\ call.n = MaxOddModulus
    /\ call.plain > 1
    /\ call.montgomery = call.plain

\* C12: whatever digest the hash returns for the transcript, the challenge
\* deriveChallenge returns (the l of the proof) is an odd prime above 2.
C12_OddPrimeChallenge ==
    HasProof =>
        /\ proof.res.l > 2
        /\ proof.res.l % 2 = 1
        /\ RefIsPrime(proof.res.l)

\* C13: two calls of deriveChallenge on the same (x, h, t, n) and nonce, the
\* one of generateProof and the one of verifyWithChallenge on the unchanged
\* proof, return the same l whatever witnesses isPrime draws in each.
C13_SameChallenge ==
    (FullyVerified /\ Honest /\ verdict.err = NoError) =>
        verdict.expectedL = proof.res.l

\* p is the least prime that is not below n.
RefLeastPrimeFrom(n, p) ==
    /\ p >= n
    /\ RefIsPrime(p)
    /\ \A q \in n..(p - 1) : ~RefIsPrime(q)

C15_DeterministicRegime ==
    Called("isPrime") => (call.res <=> RefIsPrime(call.n))

\* C15 happens: 1093 * 1093, which the witness 2 alone does not expose and
\* no small prime divides, is rejected.
C15_Witness ==
    /\ Called("isPrime")
    /\ call.n = 1093 * 1093
    /\ trialDivision(call.n) = "pass"
    /\ millerRabinRound(call.n, oddPart([d |-> call.n - 1, s |-> 0]).d,
                        oddPart([d |-> call.n - 1, s |-> 0]).s, 2)
    /\ ~call.res

GetPrimeTerminatesOnWholeBytes ==
    (gen.st = "sample" /\ gen.bits % 8 = 0) ~> (gen.st = "returned")

\* C17: getPrime terminates.  For every bit length bits >= 2 asked for, a
\* multiple of 8 or not, under a fair random source getPrime once entered
\* returns.
C17_Terminates ==
    (gen.st = "sample" /\ gen.bits >= 2) ~> (gen.st = "returned")

\* a * x mod p.
RefTimes(a, x, p) == (a * (x % p)) % p

\* a * x^8 mod p by eight multiplications, for p < 14 (13^8 < 2^31).
RefTimesEight(a, x, p) ==
    LET m == x % p
    IN  (a * ((m * m * m * m * m * m * m * m) % p)) % p

RECURSIVE RefNaivePow(_, _, _)
\* x^y mod p by y multiplications, eight at a time while y allows.
RefNaivePow(x, y, p) ==
    IF y = 0 THEN 1 % p
    ELSE IF y >= 8 THEN RefTimesEight(RefNaivePow(x, y - 8, p), x, p)
    ELSE RefTimes(RefNaivePow(x, y - 1, p), x, p)

\* C18: modpow(x, y, p) equals x^y mod p of the naive reference, for
\* x >= 0, y >= 0 and p >= 1, on the edge cases and the binary path of
\* modpow and on both windowed branches with every window size in use.
C18_ModpowCorrect ==
    /\ Called("modpow") => call.res = RefNaivePow(call.x, call.y, call.p)
    /\ Called("modpowWindowed") =>
          /\ call.plain = RefNaivePow(call.x, call.y, call.p)
          /\ call.montgomery = RefNaivePow(call.x, call.y, call.p)

\* C18 happens: the widest window is used on an exponent longer than it,
\* modulo an odd p, and the result is neither 0 nor 1.
C18_Witness ==
    /\ Called("modpowWindowed")
    /\ call.window = 6
    /\ call.y > Pow2(6)
    /\ call.p % 2 = 1
    /\ call.montgomery > 1

\* C19: constructing a MontgomeryReducer with an even modulus n fails with
\* an error; no reducer is produced for an even n.
C19_EvenModulusFails ==
    (Called("MontgomeryReducer") /\ call.n % 2 = 0) => call.err # NoError

\* C20 as stated: wrong pi is rejected.  For a proof built by evaluate,
\* deriveChallenge and prove, the record with pi replaced by another value
\* (pi + 1 among them) makes verify return false.
C20_AsStated ==
    (Verified /\ submitted.how = "pi") => ~verdict.ok

\* C20 amended: the record with pi replaced by pi' makes verify return
\* false whenever pi' is outside 1..n-1 or pi'^l differs from pi^l modulo n.
C20_WrongPiRejected ==
    (Verified /\ submitted.how = "pi") =>
        LET rec == submitted.rec
            pi == proof.res.pi
        IN  (\/ rec.pi <= 0
             \/ rec.pi >= rec.n
             \/ RefPowMod(rec.pi, rec.l, rec.n) # RefPowMod(pi, rec.l, rec.n))
            => ~verdict.ok

\* C20 happens: a proof that verify accepts is rejected once its pi is
\* replaced by a value in range.
C20_Witness ==
    /\ Verified
    /\ submitted.how = "pi"
    /\ RefValidRecord([submitted.rec EXCEPT !.pi = proof.res.pi])
    /\ RefEquation([submitted.rec EXCEPT !.pi = proof.res.pi])
    /\ submitted.rec.pi > 0
    /\ submitted.rec.pi < submitted.rec.n
    /\ ~verdict.ok

\* C21: for an odd modulus n > 1 the reducer has r the smallest power of two
\* above n and n * nPrime = -1 (mod r); for 0 <= x < n * r, reduce(x) is a t
\* with 0 <= t < n and t * r = x (mod n); fromMontgomery(toMontgomery(a)) is
\* a mod n and multiply(toMontgomery(a), toMontgomery(b)) is
\* toMontgomery(a * b mod n).
C21_MontgomeryReduction ==
    /\ (Called("reduce") \/ Called("multiply")) =>
          /\ call.mont.r > call.n
          /\ call.mont.r \div 2 <= call.n
          /\ call.mont.r = Pow2(call.mont.rBits)
          /\ call.mont.nPrime \in 0..(call.mont.r - 1)
          /\ (call.n * call.mont.nPrime) % call.mont.r = call.mont.r - 1
    /\ Called("reduce") =>
          /\ 0 <= call.res
          /\ call.res < call.n
          /\ (call.res * (call.mont.r % call.n)) % call.n = call.x % call.n
    /\ Called("multiply") =>
          /\ call.back = call.a % call.n
          /\ call.product = toMontgomery(call.mont, (call.a * call.b) % call.n)
          /\ call.square = toMontgomery(call.mont, (call.a * call.a) % call.n)

\* C21 happens: reduce takes the final subtraction, on the largest x of the
\* range, and returns a value other than 0.
C21_Witness ==
    /\ Called("reduce")
    /\ call.n = MaxOddModulus
    /\ call.x = call.n * call.mont.r - 1
    /\ reduceNoSubtract(call.mont, call.x) >= call.n
    /\ call.res > 0

\* The keys of both maps stay, each with the reducer it was set to.
CacheEntriesKept ==
    /\ \A n \in DOMAIN caches.vdf :
          n \in DOMAIN caches'.vdf /\ caches'.vdf[n] = caches.vdf[n]
    /\ \A n \in DOMAIN caches.modpow :
          n \in DOMAIN caches'.modpow /\ caches'.modpow[n] = caches.modpow[n]

\* Both maps hold at most 10 entries, each the reducer of its key, and the
\* reducer handed out for n is the reducer of n.
CacheBounded ==
    /\ Cardinality(DOMAIN caches.vdf) <= 10
    /\ Cardinality(DOMAIN caches.modpow) <= 10
    /\ \A n \in DOMAIN caches.vdf : caches.vdf[n] = MontgomeryReducer(n)
    /\ \A n \in DOMAIN caches.modpow : caches.modpow[n] = MontgomeryReducer(n)
    /\ caches.handed.st = "returned" =>
          /\ caches.handed.reducer.n = caches.handed.n
          /\ caches.handed.reducer = MontgomeryReducer(caches.handed.n)

\* C22: after any sequence of evaluate, prove and modpow calls a cache of
\* reducers holds at most 10 entries, an entry once inserted is never
\* evicted or replaced, and the reducer handed out for the modulus n,
\* cached or built afresh when the map is full, has the modulus n.
C22_CacheInvariant == [](CacheBounded) /\ [][CacheEntriesKept]_vars

\* C22 happens: the map of evaluate and prove is full and a reducer for a
\* modulus that is not a key was built and handed out.
C22_Witness ==
    /\ Cardinality(DOMAIN caches.vdf) = 10
    /\ caches.handed.st = "returned"
    /\ caches.handed.fn = "prove"
    /\ caches.handed.n \notin DOMAIN caches.vdf
    /\ caches.handed.reducer.n = caches.handed.n

\* q has no common factor with 210 = 2 * 3 * 5 * 7.
RefCoprimeToWheel(q) == q % 2 # 0 /\ q % 3 # 0 /\ q % 5 # 0 /\ q % 7 # 0

\* C23: wheel coverage.  For a start n > 7, alignToWheel(n) returns the least
\* q >= n coprime to 210 with residues[idx] = q mod 210, and every step of
\* the walk keeps residues[idx] = p mod 210 and moves p to the next larger
\* integer coprime to 210: between the integer after the previous candidate
\* (n at first) and p no integer is coprime to 210, and none is prime.
C23_WheelCoverage ==
    Called("wheel") =>
        /\ call.idx \in 0..(Len(WHEEL_RESIDUES) - 1)
        /\ WHEEL_RESIDUES[call.idx + 1] = call.p % WHEEL_MOD
        /\ RefCoprimeToWheel(call.p)
        /\ call.p >= call.from
        /\ \A q \in call.from..(call.p - 1) :
              ~RefCoprimeToWheel(q) /\ ~RefIsPrime(q)

\* C23 happens: the walk has passed the end of the residues and is at the
\* first residue of the next turn of the wheel.
C23_Witness ==
    /\ Called("wheel")
    /\ call.steps > 0
    /\ call.idx = 0
    /\ call.p > WHEEL_MOD
    /\ call.from = call.p - 1

\* C24: in the sliding-window scan of an exponent's bit string, with a
\* window size of 1, 3, 4, 5 or 6, every window value extracted is odd and
\* below 2^w, so the table entry read is one that was assigned; the trimming
\* loop leaves j above i; and the index i grows at every turn of the loop
\* and never passes the end of the string.
C24_WindowScan ==
    Called("scan") =>
        /\ call.bits[1] = 1
        /\ call.window \in {1, 3, 4, 5, 6}
        /\ call.i <= Len(call.bits)
        /\ call.kind # "start" => call.i > call.last
        /\ call.kind = "window" =>
              /\ call.win % 2 = 1
              /\ call.win < Pow2(call.window)
              /\ call.win \in call.entries
              /\ call.j > call.last
              /\ call.j <= call.last + call.window
              /\ call.j <= Len(call.bits)

\* C24 happens: a window of size 6 was cut short by its trailing zeros, not
\* by the end of the string, and its value is not 1.
C24_Witness ==
    /\ Called("scan")
    /\ call.kind = "window"
    /\ call.window = 6
    /\ call.last + call.window <= Len(call.bits)
    /\ call.j < call.last + call.window
    /\ call.win > 1

\* The values of the tuple are nonnegative and x and h need no more bytes
\* than n.
RefFits(a) ==
    /\ a.x >= 0 /\ a.h >= 0 /\ a.t >= 0 /\ a.n >= 0
    /\ a.x < Pow2(8 * bigintByteLength(a.n))
    /\ a.h < Pow2(8 * bigintByteLength(a.n))

\* The payload is TAG, X, H, T, N, NONCE in that order, X, H and N of nLen
\* bytes and T of 8 bytes, each the big-endian bytes of its value.
RefLayout(a, bytes) ==
    LET nLen == bigintByteLength(a.n)
        tag == Len(CHALLENGE_TAG)
        field(from, len) == SubSeq(bytes, from + 1, from + len)
    IN  /\ Len(bytes) = tag + 3 * nLen + U64Bytes + NONCE_LENGTH
        /\ field(0, tag) = CHALLENGE_TAG
        /\ bytesToBigint(field(tag, nLen)) = a.x
        /\ bytesToBigint(field(tag + nLen, nLen)) = a.h
        /\ bytesToBigint(field(tag + 2 * nLen, U64Bytes)) = a.t
        /\ bytesToBigint(field(tag + 2 * nLen + U64Bytes, nLen)) = a.n
        /\ field(tag + 3 * nLen + U64Bytes, NONCE_LENGTH) = a.nonce

\* C25: the challenge transcript is injective.  For a tuple (x, h, t, n,
\* nonce) of values that fit, the payload is TAG, X, H, T, N, NONCE in that
\* order, with X, H and N of nLen = byteLength(n) bytes big-endian and T of
\* 8 bytes; two such payloads are equal byte for byte only if the tuples
\* are equal.
C25_TranscriptInjective ==
    Called("transcript") =>
        /\ RefFits(call.a) =>
              /\ call.pa.err = NoError
              /\ RefLayout(call.a, call.pa.bytes)
        /\ (RefFits(call.a) /\ RefFits(call.b)
              /\ call.pa.err = NoError /\ call.pb.err = NoError
              /\ call.pa.bytes = call.pb.bytes) => call.a = call.b

\* C25 happens: two tuples that fit, with the same n and so payloads of the
\* same length, the one with x = 1 and a two-byte h, the other with a
\* two-byte x and h = 0; their payloads differ.
C25_Witness ==
    /\ Called("transcript")
    /\ RefFits(call.a) /\ RefFits(call.b)
    /\ call.a.n = call.b.n /\ call.a.t = call.b.t
    /\ call.a.nonce = call.b.nonce
    /\ call.a.x = 1 /\ call.a.h = TwoByteValue
    /\ call.b.x = TwoByteValue + 1 /\ call.b.h = 0
    /\ call.pa.err = NoError /\ call.pb.err = NoError
    /\ Len(call.pa.bytes) = Len(call.pb.bytes)
    /\ call.pa.bytes # call.pb.bytes

\* C26: isPrime has no false negatives.  For every prime n, every number of
\* rounds and every content of the random buffer isPrime(n) returns true,
\* and every random witness it uses lies in 2..n-2.
C26_NoFalseNegative ==
    Called("isPrimeRounds") =>
        /\ RefIsPrime(call.n) => call.res
        /\ \A a \in call.witnesses : 2 <= a /\ a <= call.n - 2

\* C26 happens: a prime beyond the bound of the fixed witnesses is accepted
\* after the default number of rounds, the chunks drawn giving the least
\* witness 2 and the greatest witness n - 3.
C26_Witness ==
    /\ Called("isPrimeRounds")
    /\ call.n = 1018091
    /\ call.k = DEFAULT_ROUNDS
    /\ call.witnesses = {2, call.n - 3}
    /\ call.res

\* C27: every record that verify accepts satisfies the bounds of an
\* Output and of a Proof, 0 < h < n besides 0 < x < n and 0 < pi < n,
\* whatever the modulus n, the non-squarefree ones included.
C27_AcceptedWithinBounds ==
    (Verified /\ verdict.ok) =>
        /\ 0 < submitted.rec.x /\ submitted.rec.x < submitted.rec.n
        /\ 0 < submitted.rec.pi /\ submitted.rec.pi < submitted.rec.n
        /\ 0 < submitted.rec.h /\ submitted.rec.h < submitted.rec.n

=============================================================================
